---- MODULE Spec2Model ----
(***************************************************************************)
(* Model of the numeric core of map_creator.py:                            *)
(*   filter_diverging_gps_points      (leading-divergence filter)          *)
(*   integrate_acceleration           (smoothing + double integration)     *)
(*   calculate_acceleration_frequency (sampling-rate estimate)             *)
(*                                                                         *)
(* Numbers.  Coordinates, timestamps and accelerations are integers; every *)
(* derived quantity is kept exact by carrying its denominator:             *)
(*   - a step distance sqrt(dlat^2 + dlon^2) is carried as its square, and *)
(*     "distance > 2 * median" is decided on the squares;                  *)
(*   - a smoothed sample is carried times 42 (the common denominator of    *)
(*     the window-7, degree-3 least-squares coefficients), a velocity      *)
(*     times 84 and a displacement times 168 (each trapezoid halves);      *)
(*   - a frequency is carried as a fraction <<numerator, denominator>>.    *)
(***************************************************************************)
EXTENDS Integers, Sequences, FiniteSets, TLC

VARIABLES
    latitudes,            \* raw_latitudes handed to the filter
    longitudes,           \* raw_longitudes handed to the filter
    max_points_to_check,  \* the filter's third parameter
    filtered,             \* what the first call returned
    refiltered,           \* what a call on the retained series returned
    gps_pc,               \* "idle" | "loaded" | "filtered" | "refiltered"
                          \* | "mapped"
    summary,              \* what create_enhanced_map derives from the
                          \* retained series, or the exception it raises
    rows,                 \* the acceleration capture: rows (t, x, y, z)
    integrated,           \* what integrate_acceleration returned or raised
    frequency,            \* what calculate_acceleration_frequency returned
    acc_pc                \* "idle" | "loaded" | "integrated" | "measured"

vars == <<latitudes, longitudes, max_points_to_check, filtered, refiltered,
          gps_pc, summary, rows, integrated, frequency, acc_pc>>

gpsVars == <<latitudes, longitudes, max_points_to_check, filtered,
             refiltered, gps_pc, summary>>
accVars == <<rows, integrated, frequency, acc_pc>>

(***************************************************************************)
(* Bounds of the model.                                                    *)
(***************************************************************************)
MaxLen == 6          \* longest position series with steps from LatSteps
MaxLongLen == 11     \* longest position series with steps from LongSteps
MaxRows == 8         \* longest acceleration capture

\* Step sizes of the generated tracks (degree-grid units).
LatSteps == {0, 1, 3, 7}
LongSteps == {1, 7}
LonStep == 4

\* max_points_to_check of the signature (default argument).
DefaultMaxPoints == 10

Min(a, b) == IF a < b THEN a ELSE b
Max(a, b) == IF a > b THEN a ELSE b

(***************************************************************************)
(* filter_diverging_gps_points                                             *)
(***************************************************************************)

\* lat_diff**2 + lon_diff**2 for the pair (i-1, i) of the Python loop, here the
\* 1-based pair (i, i+1): the square of the distance the code appends.
SquaredStep(lat, lon, i) ==
    (lat[i + 1] - lat[i]) * (lat[i + 1] - lat[i])
    + (lon[i + 1] - lon[i]) * (lon[i + 1] - lon[i])

\* (Variant: the range capped at max_points_to_check instead of
\* max_points_to_check + 1.)
NumDistancesOffByOne(lat, maxp) == Max(0, Min(maxp, Len(lat)) - 1)

\* for i in range(1, min(max_points_to_check + 1, len(latitudes))): one
\* distance per value of i; an empty range gives an empty list.
NumDistances(lat, maxp) == Max(0, Min(maxp + 1, Len(lat)) - 1)

StepDistances(lat, lon, maxp) ==
    [i \in 1..NumDistances(lat, maxp) |-> SquaredStep(lat, lon, i)]

\* (Variant: np.min in place of np.median.)
MedianPairAsMinimum(distances) ==
    LET sorted == SortSeq(distances, LAMBDA a, b: a < b)
    IN  <<sorted[1], sorted[1]>>

\* np.median sorts; the middle element for an odd count, the mean of the two
\* middle elements for an even count.  Returned as the pair of squares whose
\* roots are averaged (the same square twice for an odd count).
MedianPair(distances) ==
    LET sorted == SortSeq(distances, LAMBDA a, b: a < b)
        k == Len(distances)
    IN  IF k % 2 = 1
        THEN <<sorted[(k + 1) \div 2], sorted[(k + 1) \div 2]>>
        ELSE <<sorted[k \div 2], sorted[k \div 2 + 1]>>

\* distance > threshold, threshold = 2 * median_distance, on squares:
\* with median = (sqrt(A) + sqrt(B)) / 2,
\*   sqrt(D) > sqrt(A) + sqrt(B)  <=>  D - A - B > 2 * sqrt(A * B).
ExceedsThreshold(D, med) ==
    LET A == med[1]
        B == med[2]
    IN  /\ D - A - B > 0
        /\ (D - A - B) * (D - A - B) > 4 * A * B

\* (Variant: the loop without its break.)
RECURSIVE ScanNoBreak(_, _, _, _)
ScanNoBreak(distances, med, i, points_to_remove) ==
    IF i > Len(distances) THEN points_to_remove
    ELSE IF ExceedsThreshold(distances[i], med)
         THEN ScanNoBreak(distances, med, i + 1, i)
         ELSE ScanNoBreak(distances, med, i + 1, points_to_remove)

\* The enumerate loop from index i (1-based) on, with its break: the highest
\* index seen so far is kept and the first step that does not exceed the
\* threshold ends the loop.
RECURSIVE Scan(_, _, _, _)
Scan(distances, med, i, points_to_remove) ==
    IF i > Len(distances) THEN points_to_remove
    ELSE IF ExceedsThreshold(distances[i], med)
         THEN Scan(distances, med, i + 1, i)
         ELSE points_to_remove

\* (Variant: the slice taken one sample late.)
DropOneMore(s, n) == SubSeq(s, n + 2, Len(s))

\* latitudes[points_to_remove:]
Drop(s, n) == SubSeq(s, n + 1, Len(s))

\* (Variants: no early return; an early return one sample too late.)
NeverTooShort(lat, maxp) == FALSE
TooShortOffByOne(lat, maxp) == Len(lat) + 1 < maxp

\* len(latitudes) < max_points_to_check: the early return.
TooShort(lat, maxp) == Len(lat) < maxp

\* The whole function.  The record also carries the local list `distances`
\* (empty when the early return is taken before it is built).
filter_diverging_gps_points(lat, lon, maxp) ==
    IF TooShort(lat, maxp)
    THEN [latitudes |-> lat, longitudes |-> lon, removed |-> 0,
          distances |-> <<>>]
    ELSE
      LET distances == StepDistances(lat, lon, maxp)
      IN  IF Len(distances) < 3
          THEN [latitudes |-> lat, longitudes |-> lon, removed |-> 0,
                distances |-> distances]
          ELSE
            LET points_to_remove ==
                    Scan(distances, MedianPair(distances), 1, 0)
            IN  IF points_to_remove > 0
                THEN [latitudes |-> Drop(lat, points_to_remove),
                      longitudes |-> Drop(lon, points_to_remove),
                      removed |-> points_to_remove,
                      distances |-> distances]
                ELSE [latitudes |-> lat, longitudes |-> lon, removed |-> 0,
                      distances |-> distances]

NoResult == [latitudes |-> <<>>, longitudes |-> <<>>, removed |-> 0,
             distances |-> <<>>]

(***************************************************************************)
(* Position series handed to the filter: every track of up to MaxLen fixes *)
(* whose latitude steps are drawn from LatSteps, and every longer track of *)
(* up to MaxLongLen fixes whose latitude steps are drawn from LongSteps    *)
(* (long enough for the default max_points_to_check to take effect), each  *)
(* with one of three longitude profiles (constant, one jump at the first   *)
(* step, steady drift).                                                    *)
(***************************************************************************)
RECURSIVE Cumulative(_, _)
Cumulative(start, steps) ==
    IF steps = <<>> THEN <<start>>
    ELSE <<start>> \o Cumulative(start + Head(steps), Tail(steps))

LatTracks ==
    {<<>>}
    \cup UNION {{Cumulative(0, steps) : steps \in [1..(n - 1) -> LatSteps]}
               : n \in 1..MaxLen}
    \cup UNION {{Cumulative(0, steps) : steps \in [1..(n - 1) -> LongSteps]}
               : n \in (MaxLen + 1)..MaxLongLen}

LonProfiles == {"constant", "jump", "drift"}

LonTrack(n, profile) ==
    [i \in 1..n |->
        CASE profile = "constant" -> 0
          [] profile = "jump" -> IF i = 1 THEN 0 ELSE LonStep
          [] profile = "drift" -> (i - 1) * LonStep]

MaxPointsChoices == (0..(MaxLen + 1)) \cup {DefaultMaxPoints}

NoIntegration == [outcome |-> "none"]
NoFrequency == [frequency |-> <<0, 1>>, count |-> 0]
NoSummary == [outcome |-> "none"]

(***************************************************************************)
(* create_enhanced_map, as far as the position series goes                 *)
(***************************************************************************)

\* sum(latitudes)
RECURSIVE Sum(_)
Sum(s) == IF s = <<>> THEN 0 ELSE Head(s) + Sum(Tail(s))

\* list(zip(latitudes, longitudes)): as long as the shorter series.
Zip(lat, lon) ==
    [i \in 1..Min(Len(lat), Len(lon)) |-> <<lat[i], lon[i]>>]

\* 'gps_points': len(coords)
GpsPoints(coords) == Len(coords)

\* coords, center_lat, center_lon (fractions <<sum, len>>), coords[0],
\* coords[-1], and the two counts of the returned dictionary.  A division by
\* len(latitudes) = 0 raises ZeroDivisionError.
MapSummary(lat, lon, removed_points) ==
    LET coords == Zip(lat, lon)
    IN  IF Len(lat) = 0 \/ Len(lon) = 0
        THEN [outcome |-> "ZeroDivisionError"]
        ELSE [outcome |-> "ok",
              center_lat |-> <<Sum(lat), Len(lat)>>,
              center_lon |-> <<Sum(lon), Len(lon)>>,
              first |-> coords[1],
              last |-> coords[Len(coords)],
              gps_points |-> GpsPoints(coords),
              removed_points |-> removed_points]

\* A position capture is loaded; no acceleration capture is.
InitGps ==
    /\ latitudes \in LatTracks
    /\ \E p \in LonProfiles : longitudes = LonTrack(Len(latitudes), p)
    /\ max_points_to_check \in MaxPointsChoices
    /\ filtered = NoResult
    /\ refiltered = NoResult
    /\ gps_pc = "loaded"
    /\ summary = NoSummary
    /\ rows = <<>>
    /\ integrated = NoIntegration
    /\ frequency = NoFrequency
    /\ acc_pc = "idle"

\* latitudes, longitudes, removed_points = filter_diverging_gps_points(...)
Filter ==
    /\ gps_pc = "loaded"
    /\ filtered' = filter_diverging_gps_points(latitudes, longitudes,
                                               max_points_to_check)
    /\ gps_pc' = "filtered"
    /\ UNCHANGED <<latitudes, longitudes, max_points_to_check, refiltered,
                   summary>>
    /\ UNCHANGED accVars

\* The same function called again on the series it retained.
Refilter ==
    /\ gps_pc = "filtered"
    /\ refiltered' = filter_diverging_gps_points(filtered.latitudes,
                                                 filtered.longitudes,
                                                 max_points_to_check)
    /\ gps_pc' = "refiltered"
    /\ UNCHANGED <<latitudes, longitudes, max_points_to_check, filtered,
                   summary>>
    /\ UNCHANGED accVars

\* create_enhanced_map after the filter has returned: coords, the map centre,
\* the start and end markers and the counts of the returned dictionary.
CreateMap ==
    /\ gps_pc = "filtered"
    /\ summary' = MapSummary(filtered.latitudes, filtered.longitudes,
                             filtered.removed)
    /\ gps_pc' = "mapped"
    /\ UNCHANGED <<latitudes, longitudes, max_points_to_check, filtered,
                   refiltered>>
    /\ UNCHANGED accVars

(***************************************************************************)
(* integrate_acceleration                                                  *)
(***************************************************************************)

\* savgol_filter(a, 7, 3)
WindowLength == 7
PolyOrder == 3
HalfLen == WindowLength \div 2

\* The least-squares projection onto polynomials of degree PolyOrder over
\* WindowLength equally spaced samples, times 42: row r gives the fitted
\* value at window position r.  The middle row is the convolution kernel
\* savgol_coeffs(7, 3) = (-2, 3, 6, 7, 6, 3, -2) / 21.
Hat ==
    << << 39,  8, -4, -4,  1,  4, -2 >>,
       <<  8, 19, 16,  6, -4, -7,  4 >>,
       << -4, 16, 19, 12,  2, -4,  1 >>,
       << -4,  6, 12, 14, 12,  6, -4 >>,
       <<  1, -4,  2, 12, 19, 16, -4 >>,
       <<  4, -7, -4,  6, 16, 19,  8 >>,
       << -2,  4,  1, -4, -4,  8, 39 >> >>

RECURSIVE Dot(_, _, _, _)
\* sum over j = 1..m of row[j] * a[offset + j]
Dot(row, a, offset, m) ==
    IF m = 0 THEN 0
    ELSE Dot(row, a, offset, m - 1) + row[m] * a[offset + m]

\* (Variant: a capture of exactly window_length rows refused too.)
WindowTooLongOrEqual(n) == WindowLength >= n

\* mode='interp' needs window_length <= a.size, else ValueError.
WindowTooLong(n) == WindowLength > n

\* (Variant: the convolution alone, without the edge fit: only the samples
\* with a full window around them.)
SavgolValidOnly(a) ==
    [i \in 1..(Len(a) - 2 * HalfLen) |-> Dot(Hat[HalfLen + 1], a, i - 1, WindowLength)]

\* savgol_filter(a, 7, 3) for len(a) >= 7, times 42: the kernel in the
\* interior; the first and last HalfLen samples from the polynomial fitted to
\* the first and last window (mode='interp').
savgol_filter(a) ==
    LET n == Len(a)
    IN  [i \in 1..n |->
            IF i <= HalfLen
            THEN Dot(Hat[i], a, 0, WindowLength)
            ELSE IF i > n - HalfLen
            THEN Dot(Hat[WindowLength - (n - i)], a, n - WindowLength,
                     WindowLength)
            ELSE Dot(Hat[HalfLen + 1], a, i - HalfLen - 1, WindowLength)]

\* (Variant: the left rectangle d * y[:-1], times 2.)
RectangleAreas(y, x) ==
    [i \in 1..(Len(y) - 1) |-> (x[i + 1] - x[i]) * 2 * y[i]]

\* d * (y[1:] + y[:-1]) / 2 with d = diff(x), times 2.
TrapezoidAreas(y, x) ==
    [i \in 1..(Len(y) - 1) |-> (x[i + 1] - x[i]) * (y[i + 1] + y[i])]

RECURSIVE SumTo(_, _)
SumTo(s, i) == IF i = 0 THEN 0 ELSE SumTo(s, i - 1) + s[i]

\* np.cumsum
CumSum(s) == [i \in 1..Len(s) |-> SumTo(s, i)]

\* cumulative_trapezoid(y, x, initial=0), times 2: the running sum of the
\* trapezoid areas with the initial value put in front.
cumulative_trapezoid(y, x) == <<0>> \o CumSum(TrapezoidAreas(y, x))

Column(df, name) == [i \in 1..Len(df) |-> df[i][name]]

\* The function: the three smoothed axes (times 42), velocities (times 84),
\* displacements (times 168) and len(t); or the exception savgol_filter raises.
integrate_acceleration(df) ==
    LET t == Column(df, "t")
    IN  IF WindowTooLong(Len(df))
        THEN [outcome |-> "ValueError"]
        ELSE
          LET ax == savgol_filter(Column(df, "x"))
              ay == savgol_filter(Column(df, "y"))
              az == savgol_filter(Column(df, "z"))
              vx == cumulative_trapezoid(ax, t)
              vy == cumulative_trapezoid(ay, t)
              vz == cumulative_trapezoid(az, t)
          IN  [outcome |-> "ok",
               ax |-> ax, ay |-> ay, az |-> az,
               vx |-> vx, vy |-> vy, vz |-> vz,
               dx |-> cumulative_trapezoid(vx, t),
               dy |-> cumulative_trapezoid(vy, t),
               dz |-> cumulative_trapezoid(vz, t),
               count |-> Len(t)]

(***************************************************************************)
(* calculate_acceleration_frequency                                        *)
(***************************************************************************)

\* Fractions <<numerator, denominator>>, denominator non-zero.
FracPositive(q) == q[1] * q[2] > 0
FracNonZero(q) == q[1] # 0
FracEq(q, r) == q[1] * r[2] = r[1] * q[2]
FracZero == <<0, 1>>

\* (Variant: the test avg_interval != 0.)
FrequencyOfNonZero(avg_interval) ==
    IF FracNonZero(avg_interval)
    THEN <<avg_interval[2], avg_interval[1]>>
    ELSE FracZero

\* frequency = 1.0 / avg_interval if avg_interval > 0 else 0
FrequencyOf(avg_interval) ==
    IF FracPositive(avg_interval)
    THEN <<avg_interval[2], avg_interval[1]>>
    ELSE FracZero

calculate_acceleration_frequency(df) ==
    LET times == Column(df, "t")
    IN  IF Len(times) > 1
        THEN LET avg_interval ==
                     <<times[Len(times)] - times[1], Len(times) - 1>>
             IN  [frequency |-> FrequencyOf(avg_interval),
                  count |-> Len(times)]
        ELSE [frequency |-> FracZero, count |-> Len(times)]

(***************************************************************************)
(* Acceleration captures: up to MaxRows rows.  Timestamps start at one of  *)
(* TimeStarts and advance by a uniform step, with at most one step         *)
(* replaced by a repeated or a decreasing timestamp.  The x axis is a      *)
(* constant, a ramp or a single spike; y is zero or a ramp; z is zero or a *)
(* constant.                                                               *)
(***************************************************************************)
TimeStarts == {0, 5}
TimeSteps == {1, 2}
BadSteps == {0, -1}

StepSeqs(n) ==
    {[i \in 1..(n - 1) |-> h] : h \in TimeSteps}
    \cup {[i \in 1..(n - 1) |-> IF i = k THEN b ELSE h] :
            h \in TimeSteps, k \in 1..(n - 1), b \in BadSteps}

TimeTracks(n) ==
    {Cumulative(t0, steps) : t0 \in TimeStarts, steps \in StepSeqs(n)}

XSignals(n) ==
    {[i \in 1..n |-> c] : c \in {-1, 0, 2}}
    \cup {[i \in 1..n |-> i]}
    \cup {[i \in 1..n |-> IF i = k THEN 3 ELSE 0] : k \in 1..n}
YSignals(n) == {[i \in 1..n |-> 0], [i \in 1..n |-> 1 - i]}
ZSignals(n) == {[i \in 1..n |-> 0], [i \in 1..n |-> 1]}

Captures ==
    {<<>>} \cup
    UNION {{[i \in 1..n |-> [t |-> ts[i], x |-> xs[i], y |-> ys[i],
                             z |-> zs[i]]] :
              ts \in TimeTracks(n), xs \in XSignals(n), ys \in YSignals(n),
              zs \in ZSignals(n)}
           : n \in 1..MaxRows}

\* An acceleration capture is loaded; no position capture is.
InitAcc ==
    /\ rows \in Captures
    /\ integrated = NoIntegration
    /\ frequency = NoFrequency
    /\ acc_pc = "loaded"
    /\ latitudes = <<>>
    /\ longitudes = <<>>
    /\ max_points_to_check = DefaultMaxPoints
    /\ filtered = NoResult
    /\ refiltered = NoResult
    /\ gps_pc = "idle"
    /\ summary = NoSummary

\* dx_vec, dy_vec, dz_vec, accel_points = integrate_acceleration(accel_path)
IntegrateAcceleration ==
    /\ acc_pc = "loaded"
    /\ integrated' = integrate_acceleration(rows)
    /\ acc_pc' = "integrated"
    /\ UNCHANGED <<rows, frequency>>
    /\ UNCHANGED gpsVars

\* One integration stage on its own: cumulative_trapezoid over the raw x
\* column of a capture of at least one row.
IntegrateSignal ==
    /\ acc_pc = "loaded"
    /\ Len(rows) >= 1
    /\ integrated' = [outcome |-> "signal",
                      out |-> cumulative_trapezoid(Column(rows, "x"),
                                                   Column(rows, "t"))]
    /\ acc_pc' = "signal_integrated"
    /\ UNCHANGED <<rows, frequency>>
    /\ UNCHANGED gpsVars

\* accel_freq, _ = calculate_acceleration_frequency(accel_path)
CalculateFrequency ==
    /\ acc_pc = "loaded"
    /\ frequency' = calculate_acceleration_frequency(rows)
    /\ acc_pc' = "measured"
    /\ UNCHANGED <<rows, integrated>>
    /\ UNCHANGED gpsVars

NextGps == Filter \/ Refilter \/ CreateMap
NextAcc == IntegrateAcceleration \/ IntegrateSignal \/ CalculateFrequency

\* The divergence filter on its own, and the acceleration functions on their
\* own.
SpecGps == InitGps /\ [][NextGps]_vars
SpecAcc == InitAcc /\ [][NextAcc]_vars

Init == InitGps \/ InitAcc
Next == NextGps \/ NextAcc
Spec == Init /\ [][Next]_vars

(***************************************************************************)
(* Properties of the divergence filter.                                    *)
(***************************************************************************)

\* The step distances (squared) of the consecutive pairs of the window, stated
\* from the raw series: pair i is (sample i, sample i+1), i up to maxp.
WindowSteps(lat, lon, maxp) ==
    [i \in 1..Max(0, Min(maxp, Len(lat) - 1)) |-> SquaredStep(lat, lon, i)]

\* The r-th smallest element of d, by counting.
OrderStat(d, r) ==
    CHOOSE v \in {d[i] : i \in DOMAIN d} :
        /\ Cardinality({i \in DOMAIN d : d[i] < v}) < r
        /\ Cardinality({i \in DOMAIN d : d[i] <= v}) >= r

\* d[j] strictly exceeds twice the median of d.
OverThreshold(d, j) ==
    LET k == Len(d)
        lo == OrderStat(d, (k + 1) \div 2)
        hi == OrderStat(d, k \div 2 + 1)
    IN  ExceedsThreshold(d[j], <<lo, hi>>)

\* Length of the longest leading run of over-threshold steps of d.
LeadingRun(d) ==
    CHOOSE r \in 0..Len(d) :
        /\ \A j \in 1..r : OverThreshold(d, j)
        /\ r = Len(d) \/ ~OverThreshold(d, r + 1)

\* C1: the filter returns the input with exactly its first removed_count
\* samples dropped, the same count from latitudes and longitudes; nothing in
\* the interior or the tail is removed or reordered, and with removed_count 0
\* both series come back unchanged.
C1_PrefixOnly ==
    gps_pc # "loaded" =>
        /\ filtered.removed \in 0..Len(latitudes)
        /\ Len(filtered.latitudes) = Len(latitudes) - filtered.removed
        /\ Len(filtered.longitudes) = Len(longitudes) - filtered.removed
        /\ \A i \in 1..Len(filtered.latitudes) :
              /\ filtered.latitudes[i] = latitudes[i + filtered.removed]
              /\ filtered.longitudes[i] = longitudes[i + filtered.removed]
        /\ filtered.removed = 0 =>
              /\ filtered.latitudes = latitudes
              /\ filtered.longitudes = longitudes

C1_Witness ==
    /\ gps_pc = "filtered"
    /\ filtered.removed = 2
    /\ Len(filtered.latitudes) >= 3
    /\ filtered.longitudes[1] # longitudes[1]

\* C2: for a series long enough to be checked (length >= max_points_to_check
\* and at least 3 step distances in the window), removed_count is the length
\* of the longest leading run of window steps that strictly exceed twice the
\* median of the window steps; a later over-threshold step is not counted.
C2_LeadingRun ==
    (/\ gps_pc # "loaded"
     /\ Len(latitudes) >= max_points_to_check
     /\ Len(WindowSteps(latitudes, longitudes, max_points_to_check)) >= 3)
    => filtered.removed =
          LeadingRun(WindowSteps(latitudes, longitudes, max_points_to_check))

\* Under the default max_points_to_check: the first 3 steps exceed and are
\* removed, the 4th does not, and a later step exceeds again and is kept.
C2_Witness ==
    /\ gps_pc = "filtered"
    /\ max_points_to_check = DefaultMaxPoints
    /\ filtered.removed = 3
    /\ LET d == WindowSteps(latitudes, longitudes, max_points_to_check)
       IN  \E j \in (filtered.removed + 2)..Len(d) : OverThreshold(d, j)

\* C3 (as claimed): a second call on the retained series removes nothing.
C3_Idempotent ==
    gps_pc = "refiltered" =>
        /\ refiltered.removed = 0
        /\ refiltered.latitudes = filtered.latitudes
        /\ refiltered.longitudes = filtered.longitudes

\* C3 (amended): a second call on the retained series removes nothing when
\* that series has fewer than max_points_to_check samples.
C3_IdempotentWhenShort ==
    (/\ gps_pc = "refiltered"
     /\ Len(filtered.latitudes) < max_points_to_check)
    => /\ refiltered.removed = 0
       /\ refiltered.latitudes = filtered.latitudes
       /\ refiltered.longitudes = filtered.longitudes

\* The first call removed points, the retained series fell below
\* max_points_to_check although its first step is more than twice the median
\* of its steps.
C3_Witness ==
    /\ gps_pc = "refiltered"
    /\ filtered.removed > 0
    /\ Len(filtered.latitudes) < max_points_to_check
    /\ LET d == WindowSteps(filtered.latitudes, filtered.longitudes,
                            max_points_to_check)
       IN  Len(d) >= 3 /\ OverThreshold(d, 1)

\* C4: a series shorter than max_points_to_check, or one with fewer than 3
\* step distances in its window, is returned unchanged with removed_count 0,
\* whatever its step distances are.
C4_ShortUnchanged ==
    (/\ gps_pc # "loaded"
     /\ \/ Len(latitudes) < max_points_to_check
        \/ Len(WindowSteps(latitudes, longitudes, max_points_to_check)) < 3)
    => /\ filtered.removed = 0
       /\ filtered.latitudes = latitudes
       /\ filtered.longitudes = longitudes

\* A length-5 series under the default max_points_to_check whose first step
\* is more than twice the median of its steps.
C4_Witness ==
    /\ gps_pc = "filtered"
    /\ max_points_to_check = DefaultMaxPoints
    /\ Len(latitudes) = 5
    /\ Len(latitudes) < max_points_to_check
    /\ OverThreshold(WindowSteps(latitudes, longitudes, Len(latitudes)), 1)
    /\ filtered.removed = 0

\* C10 (as claimed): for a series of length >= max_points_to_check exactly
\* max_points_to_check distances are computed.
C10_ExactlyMaxDistances ==
    (gps_pc # "loaded" /\ Len(latitudes) >= max_points_to_check)
    => Len(filtered.distances) = max_points_to_check

\* C10 (amended): for a series of length >= max_points_to_check the distances
\* are those of the first min(max_points_to_check, length - 1) consecutive
\* pairs: max_points_to_check of them when the series is longer than
\* max_points_to_check, one fewer when the lengths are equal.
C10_WindowDistances ==
    (gps_pc # "loaded" /\ Len(latitudes) >= max_points_to_check)
    => /\ Len(filtered.distances) =
             IF Len(latitudes) = 0 THEN 0
             ELSE Min(max_points_to_check, Len(latitudes) - 1)
       /\ \A i \in 1..Len(filtered.distances) :
             filtered.distances[i] = SquaredStep(latitudes, longitudes, i)

C10_Witness ==
    /\ gps_pc = "filtered"
    /\ max_points_to_check >= 4
    /\ Len(latitudes) = max_points_to_check
    /\ Len(filtered.distances) = max_points_to_check - 1

(***************************************************************************)
(* Properties of the integration pipeline and the frequency estimate.      *)
(***************************************************************************)

Times == Column(rows, "t")

StrictlyIncreasing(t) == \A i \in 1..(Len(t) - 1) : t[i] < t[i + 1]

\* out (carried times 2 relative to v) is the cumulative trapezoidal integral
\* of v over t: same length, zero first, and each further element adds
\* (t[i] - t[i-1]) * (v[i] + v[i-1]) / 2; on a constant signal c with uniform
\* step h it is c * h * i at (0-based) index i.
TrapezoidRule(out, v, t) ==
    /\ Len(out) = Len(v)
    /\ out[1] = 0
    /\ \A i \in 2..Len(v) :
          out[i] = out[i - 1] + (t[i] - t[i - 1]) * (v[i] + v[i - 1])
    /\ \A c \in {v[1]}, h \in {t[i + 1] - t[i] : i \in 1..Min(1, Len(t) - 1)} :
          (/\ \A i \in 1..Len(v) : v[i] = c
           /\ \A i \in 1..(Len(t) - 1) : t[i + 1] - t[i] = h)
          => \A i \in 1..Len(v) : out[i] = 2 * (c * h * (i - 1))

\* C5: every integration stage is the cumulative trapezoidal rule: for a
\* signal of n >= 1 samples the output has n samples, starts at 0 and follows
\* out[i] = out[i-1] + (t[i]-t[i-1])*(v[i]+v[i-1])/2 (a single sample gives a
\* single 0; a constant c with uniform step h gives c*h*i).
C5_Trapezoid ==
    /\ acc_pc = "signal_integrated" =>
          TrapezoidRule(integrated.out, Column(rows, "x"), Times)
    /\ (acc_pc = "integrated" /\ integrated.outcome = "ok") =>
          /\ TrapezoidRule(integrated.vx, integrated.ax, Times)
          /\ TrapezoidRule(integrated.vy, integrated.ay, Times)
          /\ TrapezoidRule(integrated.vz, integrated.az, Times)
          /\ TrapezoidRule(integrated.dx, integrated.vx, Times)
          /\ TrapezoidRule(integrated.dy, integrated.vy, Times)
          /\ TrapezoidRule(integrated.dz, integrated.vz, Times)

\* The constant signal 2 over three or more samples two seconds apart.
C5_Witness ==
    /\ acc_pc = "signal_integrated"
    /\ Len(rows) >= 3
    /\ \A i \in 1..Len(rows) : rows[i].x = 2
    /\ \A i \in 1..(Len(rows) - 1) : Times[i + 1] - Times[i] = 2
    /\ integrated.out[3] = 2 * (2 * 2 * 2)

\* C6: for a capture of n >= 7 rows integrate_acceleration returns dx, dy and
\* dz of exactly n samples each, each starting at 0, and the sample count n.
C6_SameLength ==
    (acc_pc = "integrated" /\ Len(rows) >= 7)
    => /\ integrated.outcome = "ok"
       /\ Len(integrated.dx) = Len(rows)
       /\ Len(integrated.dy) = Len(rows)
       /\ Len(integrated.dz) = Len(rows)
       /\ integrated.dx[1] = 0
       /\ integrated.dy[1] = 0
       /\ integrated.dz[1] = 0
       /\ integrated.count = Len(rows)

C6_Witness ==
    /\ acc_pc = "integrated"
    /\ Len(rows) = 8
    /\ integrated.outcome = "ok"
    /\ integrated.dx[8] # 0
    /\ integrated.dy[8] # 0
    /\ integrated.dz[8] # 0

\* C7: the frequency estimate never fails: count is the number of timestamps;
\* the frequency is 0 for count <= 1, 0 when (t[last]-t[0])/(count-1) is not
\* greater than 0, and its reciprocal otherwise ([0,1,2,3] gives (1, 4) and
\* [5] gives (0, 1)).
C7_Frequency ==
    acc_pc = "measured" =>
        LET n == Len(Times)
            f == frequency.frequency
        IN  /\ frequency.count = n
            /\ f[2] # 0
            /\ n <= 1 => f[1] = 0
            /\ (n > 1 /\ Times[n] - Times[1] <= 0) => f[1] = 0
            /\ (n > 1 /\ Times[n] - Times[1] > 0) =>
                  f[1] * (Times[n] - Times[1]) = f[2] * (n - 1)
            /\ Times = <<0, 1, 2, 3>> => f[1] = f[2]
            /\ Times = <<5>> => f[1] = 0

\* Two rows whose second timestamp is earlier than the first.
C7_Witness ==
    /\ acc_pc = "measured"
    /\ Len(rows) = 2
    /\ Times[2] < Times[1]
    /\ frequency = [frequency |-> <<0, 1>>, count |-> 2]

\* C8: integrate_acceleration fails in the smoothing step, returning no
\* displacement, exactly when the capture has fewer than 7 rows.
C8_InsufficientSamples ==
    acc_pc = "integrated" =>
        /\ integrated.outcome = "ValueError" <=> Len(rows) < 7
        /\ integrated.outcome = "ok" <=> Len(rows) >= 7
        /\ integrated.outcome = "ValueError" =>
              DOMAIN integrated = {"outcome"}

C8_Witness ==
    /\ acc_pc = "integrated"
    /\ Len(rows) = 6
    /\ integrated.outcome = "ValueError"

\* C9: when the timestamps of the capture are not strictly increasing,
\* integrate_acceleration fails and returns no displacement series (whatever
\* the exception is called).
C9_MalformedFatal ==
    (acc_pc = "integrated" /\ ~StrictlyIncreasing(Times))
    => /\ integrated.outcome # "ok"
       /\ "dx" \notin DOMAIN integrated

(***************************************************************************)
(* Properties of the map summary.                                          *)
(***************************************************************************)

\* C11: for a non-empty position series the filter removes at most half of
\* the step distances of its window, so the retained series is not empty;
\* create_enhanced_map then computes its centre (a division by the retained
\* length) and its first and last markers from at least one point, and
\* reports gps_points = raw point count - removed_points.
C11_AtMostHalfRemoved ==
    (gps_pc \in {"filtered", "refiltered", "mapped"} /\ Len(latitudes) >= 1)
    => /\ 2 * filtered.removed
             <= Len(WindowSteps(latitudes, longitudes, max_points_to_check))
       /\ Len(filtered.latitudes) >= 1
       /\ Len(filtered.longitudes) >= 1
       /\ gps_pc = "mapped" =>
             /\ summary.outcome = "ok"
             /\ summary.center_lat[2] = Len(latitudes) - filtered.removed
             /\ summary.center_lon[2] = Len(longitudes) - filtered.removed
             /\ summary.first = <<latitudes[filtered.removed + 1],
                                  longitudes[filtered.removed + 1]>>
             /\ summary.last = <<latitudes[Len(latitudes)],
                                 longitudes[Len(longitudes)]>>
             /\ summary.removed_points = filtered.removed
             /\ summary.gps_points = Len(latitudes) - summary.removed_points

\* Under the default max_points_to_check a 10-fix track loses 4 of its 9
\* window steps, the most the bound allows, and the map is built from the 6
\* fixes that remain.
C11_Witness ==
    /\ gps_pc = "mapped"
    /\ max_points_to_check = DefaultMaxPoints
    /\ Len(latitudes) = 10
    /\ filtered.removed = 4
    /\ summary.outcome = "ok"
    /\ summary.gps_points = 6

====
